---- MODULE Spec2Model ----
(***************************************************************************)
(* A model of redant's test list builder (test_list_builder.py).           *)
(*                                                                         *)
(* TestListBuilder keeps two class attributes, tests_to_run and            *)
(* tests_run_dict, and create_test_dict is a classmethod working on them.  *)
(* The model has one copy of each attribute and NumCalls invocations of    *)
(* create_test_dict whose statements may interleave (a sequential run is    *)
(* the interleaving in which one invocation stops before the next is       *)
(* called).                                                                *)
(*                                                                         *)
(* A Python str is a sequence of atoms: an atom is a run of characters     *)
(* that no operation of the program cuts (a word, "/", ";", ",", ".py").   *)
(***************************************************************************)
EXTENDS Integers, Sequences, FiniteSets, TLC

\* The number of create_test_dict invocations made in one process.
NumCalls == 2

Invocations == 1..NumCalls

-----------------------------------------------------------------------------
(* str operations *)

\* s.split(sep): the segments between the occurrences of sep, the empty ones
\* included; a string holding no sep is returned whole (''.split(',') = ['']).
RECURSIVE Split(_, _)
Split(s, sep) ==
    IF \A i \in 1..Len(s) : s[i] # sep
    THEN <<s>>
    ELSE LET k == CHOOSE i \in 1..Len(s) :
                      s[i] = sep /\ \A j \in 1..(i - 1) : s[j] # sep
         IN  <<SubSeq(s, 1, k - 1)>> \o Split(SubSeq(s, k + 1, Len(s)), sep)

\* s.replace(old, new) for single atoms.
Replace(s, old, new) == [i \in 1..Len(s) |-> IF s[i] = old THEN new ELSE s[i]]

\* tfile.startswith("test") and tfile.endswith(".py")
StartsWithTest(s) == Len(s) >= 1 /\ s[1] = "test"
EndsWithPy(s) == Len(s) >= 1 /\ s[Len(s)] = ".py"

\* os.path.join(root, tfile): a "/" is put between the two unless root ends
\* with one already.
PathJoin(root, tfile) ==
    IF root = <<>> \/ root[Len(root)] = "/"
    THEN root \o tfile
    ELSE root \o <<"/">> \o tfile

\* xs[-1] and xs[-2] of a Python list; Missing when the index is out of range.
Missing == <<"<IndexError>">>
Last(xs) == IF Len(xs) >= 1 THEN xs[Len(xs)] ELSE Missing
SecondLast(xs) == IF Len(xs) >= 2 THEN xs[Len(xs) - 1] ELSE Missing

-----------------------------------------------------------------------------
(* The file system and the modules on it: the environment of a build. *)

\* Classes a test module can hold.  "module" is where the class is defined
\* ("own": in the test module itself; "harness": imported); "entry" says
\* whether the class exposes the harness's test entry point.
DParentTest  == [name |-> "DParentTest",  module |-> "harness", entry |-> TRUE]
NdParentTest == [name |-> "NdParentTest", module |-> "harness", entry |-> TRUE]
TestCase     == [name |-> "TestCase",     module |-> "own",     entry |-> TRUE]
AaTest       == [name |-> "AaTest",       module |-> "own",     entry |-> TRUE]
TestOther    == [name |-> "TestOther",    module |-> "own",     entry |-> TRUE]

\* The class names in the order sorted() gives them.
ClassNameOrder == <<"AaTest", "DParentTest", "NdParentTest", "TestCase", "TestOther">>
NameRank(n) == CHOOSE i \in 1..Len(ClassNameOrder) : ClassNameOrder[i] = n

File(dir, name, comments, importable, classes) ==
    [dir |-> dir, name |-> name, comments |-> comments,
     importable |-> importable, classes |-> classes]

Tests  == <<"tests">>
Gd     == <<"tests", "/", "glusterd">>
Dht    == <<"tests", "/", "dht">>
Empty  == <<"tests", "/", "empty">>
Gone   == <<"tests", "/", "gone">>
NoCmt  == <<"bad", "/", "nocomment">>
Short  == <<"bad", "/", "short">>
Token  == <<"bad", "/", "token">>
NoTopo == <<"bad", "/", "notopo">>
OneCls == <<"cls", "/", "one">>
ImpCls == <<"cls", "/", "imported">>
TwoCls == <<"cls", "/", "two">>
Broken == <<"cls", "/", "broken">>
\* A path argument that is no path (None): os.walk raises on it.
NonePath == <<"<None>">>

Good  == <<"disruptive", ";", "replicated">>
Good2 == <<"nonDisruptive", ";", "distributed", ",", "replicated">>

\* The files on disk, in the order os.walk lists them (a directory's files
\* before those of its subdirectories).  Gone is not on disk.
Disk == <<
    File(Gd,     <<"test", "_snap", ".py">>,      <<Good>>,  TRUE, {DParentTest, TestCase}),
    File(Gd,     <<"conftest", ".py">>,           <<Good>>,  TRUE, {TestCase}),
    File(Gd,     <<"test", "_notes", ".txt">>,    <<>>,      FALSE, {}),
    File(Dht,    <<"test", "_rebalance", ".py">>, <<Good2, <<"later">> >>, TRUE,
                                                  {NdParentTest, TestCase}),
    File(Empty,  <<"README">>,                    <<>>,      FALSE, {}),
    File(NoCmt,  <<"test", "_a", ".py">>,         <<>>,      TRUE, {DParentTest, TestCase}),
    File(NoCmt,  <<"test", "_b", ".py">>,         <<Good>>,  TRUE, {DParentTest, TestCase}),
    File(Short,  <<"test", "_c", ".py">>,         << <<"disruptive">> >>, TRUE,
                                                  {DParentTest, TestCase}),
    File(Token,  <<"test", "_d", ".py">>,         << <<"bogus", ";", "replicated">> >>, TRUE,
                                                  {DParentTest, TestCase}),
    File(NoTopo, <<"test", "_e", ".py">>,         << <<"nonDisruptive", ";">> >>, TRUE,
                                                  {NdParentTest, TestCase}),
    File(OneCls, <<"test", "_f", ".py">>,         <<Good>>,  TRUE, {TestCase}),
    File(ImpCls, <<"test", "_g", ".py">>,         <<Good>>,  TRUE, {AaTest, DParentTest}),
    File(TwoCls, <<"test", "_h", ".py">>,         <<Good>>,  TRUE,
                                                  {DParentTest, TestCase, TestOther}),
    File(Broken, <<"test", "_i", ".py">>,         <<Good>>,  FALSE, {}) >>

\* The path arguments the invocations are called with.
PathArgs == {Tests, Gd, Dht, Empty, Gone, NonePath,
             NoCmt, Short, Token, NoTopo, OneCls, ImpCls, TwoCls, Broken}

IsPrefix(p, q) == Len(p) <= Len(q) /\ SubSeq(q, 1, Len(p)) = p

\* dir is top or a directory below it.
Under(top, dir) ==
    \/ dir = top
    \/ IsPrefix(top \o <<"/">>, dir)

\* os.walk(path) flattened to the (root, tfile) pairs the two for loops of
\* create_test_dict visit.  os.walk swallows the errors of listing a directory
\* (onerror is None), so a path that is not on disk yields nothing.
Walk(top) ==
    LET hit(f) == Under(top, f.dir)
    IN  SelectSeq(Disk, hit)

\* os.walk raises (inside the try) when the argument is no path at all.
WalkRaises(top) == top = NonePath

\* The file a path names, found by joining as the scanner joins.
FileAt(p) == Disk[CHOOSE i \in 1..Len(Disk) : PathJoin(Disk[i].dir, Disk[i].name) = p]

-----------------------------------------------------------------------------
(* The helpers of TestListBuilder, as functions of the path they are given. *)

\* extract_comments(tc_path, mime="text/x-python"): the comments of the file,
\* in order.
extract_comments(tc_path) == FileAt(tc_path).comments

\* _get_test_module_info raises IndexError: at [0] when the file has no
\* comment, at split(';')[1] when the first comment has no second field.
InfoRaises(tc_path) ==
    IF Len(extract_comments(tc_path)) = 0 THEN TRUE
    ELSE Len(Split(extract_comments(tc_path)[1], ";")) < 2

\* _get_test_module_info: tcNature is field 0 of the first comment, volType
\* is field 1 split on ','.
get_test_module_info(tc_path) ==
    LET flags == extract_comments(tc_path)[1]
    IN  [tcNature |-> Split(flags, ";")[1],
         volType  |-> Split(Split(flags, ";")[2], ",")]

\* tc_path.replace("/", ".")[:-3] ; the three characters cut are the ".py"
\* every scanned path ends with.
ModuleStr(tc_path) ==
    LET dotted == Replace(tc_path, "/", ".")
    IN  IF EndsWithPy(dotted) THEN SubSeq(dotted, 1, Len(dotted) - 1)
        ELSE <<"<cut>">>

\* importlib.import_module(tc_module_str): the module of that dotted name, if
\* there is one and it can be loaded.
Importable(tc_module_str) ==
    \E i \in 1..Len(Disk) :
        /\ ModuleStr(PathJoin(Disk[i].dir, Disk[i].name)) = tc_module_str
        /\ Disk[i].importable
import_module(tc_module_str) ==
    Disk[CHOOSE i \in 1..Len(Disk) :
            /\ ModuleStr(PathJoin(Disk[i].dir, Disk[i].name)) = tc_module_str
            /\ Disk[i].importable]

\* inspect.getmembers(tc_module, inspect.isclass): every class the module's
\* namespace holds, imported ones included, sorted by name.
RECURSIVE SortedByName(_)
SortedByName(classes) ==
    IF classes = {} THEN <<>>
    ELSE LET c == CHOOSE x \in classes :
                      \A y \in classes : NameRank(x.name) <= NameRank(y.name)
         IN  <<c>> \o SortedByName(classes \ {c})
getmembers(tc_module) == SortedByName(tc_module.classes)

\* _get_test_class raises: ImportError when the module cannot be loaded,
\* IndexError at [1] when the module holds fewer than two classes.
ClassRaises(tc_path) ==
    IF ~Importable(ModuleStr(tc_path)) THEN "ImportError"
    ELSE IF Len(getmembers(import_module(ModuleStr(tc_path)))) < 2 THEN "IndexError"
    ELSE "no"

\* _get_test_class: the class at index 1 of the sorted listing.
get_test_class(tc_path) == getmembers(import_module(ModuleStr(tc_path)))[2]

-----------------------------------------------------------------------------
(* State *)

VARIABLES
    tests_to_run,          \* TestListBuilder.tests_to_run, line 22
    tests_run_dict,        \* TestListBuilder.tests_run_dict, line 23
    pc,                    \* where each invocation of create_test_dict is
    path,                  \* its argument, line 26
    walkPos,               \* the position of its os.walk loops, lines 64-65
    idx,                   \* the position of its iterator over tests_to_run,
                           \* line 78
    test_case_path,        \* its loop variable, line 78
    test_flags,            \* its test_flags, line 79
    disruptive_count,      \* its disruptive_count, line 75
    non_disruptive_count,  \* its non_disruptive_count, line 76
    ret,                   \* what it returned: "shared" is the tests_run_dict
                           \* object itself (line 99), "fresh" the new {} of
                           \* line 71
    exc,                   \* the exception it raised to its caller, and the
                           \* function that raised it
    returnedValue,         \* history: the catalog as it was when returned
    before,                \* history: the invocations that had stopped when
                           \* this one was called
    scanned,               \* history: the paths its line 67 has appended
    \* SnapshotOps (snapshot_ops.py) and the volumes it works on
    volState,              \* each volume: "started" or "stopped"
    spc,                   \* where the call of a SnapshotOps method is
    frame,                 \* the arguments of the call, lines 258-259
    issued,                \* the commands the call has sent to the node
    outcome                \* how the call ended: what it returned or raised

vars == <<tests_to_run, tests_run_dict, pc, path, walkPos, idx, test_case_path,
          test_flags, disruptive_count, non_disruptive_count, ret, exc,
          returnedValue, before, scanned, volState, spc, frame, issued,
          outcome>>

\* The state of the test list builder, and that of the snapshot operations.
builderVars == <<tests_to_run, tests_run_dict, pc, path, walkPos, idx,
                 test_case_path, test_flags, disruptive_count,
                 non_disruptive_count, ret, exc, returnedValue, before, scanned>>
snapVars == <<volState, spc, frame, issued, outcome>>

Volumes   == {"vol1", "vol2"}
Snapshots == {"snap1", "snap2"}
Nodes     == {"server1", "server2"}
\* ret['msg']['opRet'] of a gluster command: 0, or an error code.
OpRets    == {0, -1}

NoFrame == [method |-> "none", volname |-> "none", snapname |-> "none",
            node |-> "none", excep |-> TRUE]

\* {} as a dict of any kind.
EmptyDict == [k \in {} |-> 0]

\* d[k] = v of a Python dict: the key is added, or its value replaced.
SetItem(d, k, v) == [x \in DOMAIN d \cup {k} |-> IF x = k THEN v ELSE d[x]]

NoException == [type |-> "none", raisedIn |-> "none"]

NoFlags == [tcNature |-> <<>>, volType |-> <<>>]

Active(p) == pc[p] \notin {"idle", "returned", "raised"}
Stopped(p) == pc[p] \in {"returned", "raised"}

Init ==
    /\ tests_to_run = <<>>
    /\ tests_run_dict = EmptyDict
    /\ pc = [p \in Invocations |-> "idle"]
    /\ path = [p \in Invocations |-> <<>>]
    /\ walkPos = [p \in Invocations |-> 1]
    /\ idx = [p \in Invocations |-> 1]
    /\ test_case_path = [p \in Invocations |-> <<>>]
    /\ test_flags = [p \in Invocations |-> NoFlags]
    /\ disruptive_count = [p \in Invocations |-> 0]
    /\ non_disruptive_count = [p \in Invocations |-> 0]
    /\ ret = [p \in Invocations |-> "none"]
    /\ exc = [p \in Invocations |-> NoException]
    /\ returnedValue = [p \in Invocations |-> EmptyDict]
    /\ before = [p \in Invocations |-> {}]
    /\ scanned = [p \in Invocations |-> <<>>]
    /\ volState = [v \in Volumes |-> "started"]
    /\ spc = "idle"
    /\ frame = NoFrame
    /\ issued = <<>>
    /\ outcome = "none"

-----------------------------------------------------------------------------
(* create_test_dict, statement by statement *)

\* The partition line 80 selects: "disruptive" for that exact token, the else
\* branch for every other.
Partition(flags) ==
    IF flags.tcNature = <<"disruptive">> THEN "disruptive" ELSE "nonDisruptive"

\* The counter the selected branch uses as the record's key.
Count(p) ==
    IF Partition(test_flags[p]) = "disruptive"
    THEN disruptive_count[p] ELSE non_disruptive_count[p]

\* IsTestFile with the two conditions of line 66 joined by "or".
IsTestFileEither(tfile) == EndsWithPy(tfile) \/ StartsWithTest(tfile)

\* The scanner's filter, line 66.
IsTestFile(tfile) == EndsWithPy(tfile) /\ StartsWithTest(tfile)

\* ModuleFields with the two negative indexes of lines 84 and 85 exchanged.
ModuleFieldsIndexesExchanged(flags, tc_path) ==
    [k \in {"volType", "modulePath", "moduleName", "componentName"} |->
        CASE k = "volType"       -> flags.volType
          [] k = "modulePath"    -> tc_path
          [] k = "moduleName"    -> SecondLast(Split(tc_path, "/"))
          [] k = "componentName" -> Last(Split(tc_path, "/"))]

\* The four fields lines 82-85 (91-94) store.
ModuleFields(flags, tc_path) ==
    [k \in {"volType", "modulePath", "moduleName", "componentName"} |->
        CASE k = "volType"       -> flags.volType
          [] k = "modulePath"    -> tc_path
          [] k = "moduleName"    -> Last(Split(tc_path, "/"))
          [] k = "componentName" -> SecondLast(Split(tc_path, "/"))]

\* An invocation stops by raising e from function fn.
Raise(p, e, fn) ==
    /\ pc' = [pc EXCEPT ![p] = "raised"]
    /\ exc' = [exc EXCEPT ![p] = [type |-> e, raisedIn |-> fn]]

\* create_test_dict(path) is called; the calls are numbered in call order.
Call(p, arg) ==
    /\ pc[p] = "idle"
    /\ \A q \in Invocations : q < p => pc[q] # "idle"
    /\ pc' = [pc EXCEPT ![p] = "walk"]
    /\ path' = [path EXCEPT ![p] = arg]
    /\ before' = [before EXCEPT ![p] = {q \in Invocations : Stopped(q)}]
    /\ UNCHANGED <<tests_to_run, tests_run_dict, walkPos, idx, test_case_path,
                   test_flags, disruptive_count, non_disruptive_count, ret, exc,
                   returnedValue, scanned, snapVars>>

\* Lines 64-67: the next file of the walk; a test file is appended to the
\* class's tests_to_run.
ScanFile(p) ==
    /\ pc[p] = "walk"
    /\ ~WalkRaises(path[p])
    /\ walkPos[p] <= Len(Walk(path[p]))
    /\ LET f == Walk(path[p])[walkPos[p]]
       IN  IF IsTestFile(f.name)
           THEN /\ tests_to_run' = Append(tests_to_run, PathJoin(f.dir, f.name))
                /\ scanned' = [scanned EXCEPT ![p] = Append(@, PathJoin(f.dir, f.name))]
           ELSE UNCHANGED <<tests_to_run, scanned>>
    /\ walkPos' = [walkPos EXCEPT ![p] = @ + 1]
    /\ UNCHANGED <<tests_run_dict, pc, path, idx, test_case_path, test_flags,
                   disruptive_count, non_disruptive_count, ret, exc,
                   returnedValue, before, snapVars>>

\* Lines 69-71: the walk raised; the exception is printed and a new {} returned.
ScanFails(p) ==
    /\ pc[p] = "walk"
    /\ WalkRaises(path[p])
    /\ pc' = [pc EXCEPT ![p] = "returned"]
    /\ ret' = [ret EXCEPT ![p] = "fresh"]
    /\ returnedValue' = [returnedValue EXCEPT ![p] = EmptyDict]
    /\ UNCHANGED <<tests_to_run, tests_run_dict, path, walkPos, idx,
                   test_case_path, test_flags, disruptive_count,
                   non_disruptive_count, exc, before, scanned, snapVars>>

\* Line 73, once the walk is over.
ResetDisruptive(p) ==
    /\ pc[p] = "walk"
    /\ ~WalkRaises(path[p])
    /\ walkPos[p] > Len(Walk(path[p]))
    /\ tests_run_dict' = SetItem(tests_run_dict, "disruptive", EmptyDict)
    /\ pc' = [pc EXCEPT ![p] = "reset"]
    /\ UNCHANGED <<tests_to_run, path, walkPos, idx, test_case_path, test_flags,
                   disruptive_count, non_disruptive_count, ret, exc,
                   returnedValue, before, scanned, snapVars>>

\* Lines 74-76, and the iterator of line 78 is created.
ResetNonDisruptive(p) ==
    /\ pc[p] = "reset"
    /\ tests_run_dict' = SetItem(tests_run_dict, "nonDisruptive", EmptyDict)
    /\ disruptive_count' = [disruptive_count EXCEPT ![p] = 0]
    /\ non_disruptive_count' = [non_disruptive_count EXCEPT ![p] = 0]
    /\ idx' = [idx EXCEPT ![p] = 1]
    /\ pc' = [pc EXCEPT ![p] = "loop"]
    /\ UNCHANGED <<tests_to_run, path, walkPos, test_case_path, test_flags,
                   ret, exc, returnedValue, before, scanned, snapVars>>

\* Line 78: the iterator yields the next element of tests_to_run.
NextTest(p) ==
    /\ pc[p] = "loop"
    /\ idx[p] <= Len(tests_to_run)
    /\ test_case_path' = [test_case_path EXCEPT ![p] = tests_to_run[idx[p]]]
    /\ idx' = [idx EXCEPT ![p] = @ + 1]
    /\ pc' = [pc EXCEPT ![p] = "info"]
    /\ UNCHANGED <<tests_to_run, tests_run_dict, path, walkPos, test_flags,
                   disruptive_count, non_disruptive_count, ret, exc,
                   returnedValue, before, scanned, snapVars>>

\* Line 99: the iterator is exhausted; the class's dict itself is returned.
Return(p) ==
    /\ pc[p] = "loop"
    /\ idx[p] > Len(tests_to_run)
    /\ pc' = [pc EXCEPT ![p] = "returned"]
    /\ ret' = [ret EXCEPT ![p] = "shared"]
    /\ returnedValue' = [returnedValue EXCEPT ![p] = tests_run_dict]
    /\ UNCHANGED <<tests_to_run, tests_run_dict, path, walkPos, idx,
                   test_case_path, test_flags, disruptive_count,
                   non_disruptive_count, exc, before, scanned, snapVars>>

\* Line 79: _get_test_module_info returns the flags.
GetInfo(p) ==
    /\ pc[p] = "info"
    /\ ~InfoRaises(test_case_path[p])
    /\ test_flags' = [test_flags EXCEPT ![p] = get_test_module_info(test_case_path[p])]
    /\ pc' = [pc EXCEPT ![p] = "new"]
    /\ UNCHANGED <<tests_to_run, tests_run_dict, path, walkPos, idx,
                   test_case_path, disruptive_count, non_disruptive_count, ret,
                   exc, returnedValue, before, scanned, snapVars>>

\* Line 79: _get_test_module_info raises, and nothing catches it.
GetInfoFails(p) ==
    /\ pc[p] = "info"
    /\ InfoRaises(test_case_path[p])
    /\ Raise(p, "IndexError", "_get_test_module_info")
    /\ UNCHANGED <<tests_to_run, tests_run_dict, path, walkPos, idx,
                   test_case_path, test_flags, disruptive_count,
                   non_disruptive_count, ret, returnedValue, before, scanned, snapVars>>

\* Lines 80-81 (90): an empty record is stored under the branch's counter.
NewRecord(p) ==
    /\ pc[p] = "new"
    /\ LET part == Partition(test_flags[p])
       IN  tests_run_dict' =
               [tests_run_dict EXCEPT ![part] = SetItem(@, Count(p), EmptyDict)]
    /\ pc' = [pc EXCEPT ![p] = "fill"]
    /\ UNCHANGED <<tests_to_run, path, walkPos, idx, test_case_path, test_flags,
                   disruptive_count, non_disruptive_count, ret, exc,
                   returnedValue, before, scanned, snapVars>>

\* The record lines 82-88 (91-97) write to is looked up in the class's dict again
\* by every statement; it is gone when another invocation has reset the
\* partition in between.
RecordThere(p) == Count(p) \in DOMAIN tests_run_dict[Partition(test_flags[p])]

\* Lines 82-85 (91-94): the module level fields.  A scanned path is a join of
\* a non-empty root and a file name, so split("/")[-2] is always there.
FillRecord(p) ==
    /\ pc[p] = "fill"
    /\ RecordThere(p)
    /\ SecondLast(Split(test_case_path[p], "/")) # Missing
    /\ LET part == Partition(test_flags[p])
       IN  tests_run_dict' =
               [tests_run_dict EXCEPT ![part][Count(p)] =
                    ModuleFields(test_flags[p], test_case_path[p])]
    /\ pc' = [pc EXCEPT ![p] = "class"]
    /\ UNCHANGED <<tests_to_run, path, walkPos, idx, test_case_path, test_flags,
                   disruptive_count, non_disruptive_count, ret, exc,
                   returnedValue, before, scanned, snapVars>>

\* Lines 86-88 (95-97): the class is resolved and stored, the counter moves on.
SetClass(p) ==
    /\ pc[p] = "class"
    /\ ClassRaises(test_case_path[p]) = "no"
    /\ RecordThere(p)
    /\ LET part == Partition(test_flags[p])
       IN  tests_run_dict' =
               [tests_run_dict EXCEPT ![part][Count(p)] =
                    SetItem(@, "testClass", get_test_class(test_case_path[p]))]
    /\ IF Partition(test_flags[p]) = "disruptive"
       THEN /\ disruptive_count' = [disruptive_count EXCEPT ![p] = @ + 1]
            /\ UNCHANGED non_disruptive_count
       ELSE /\ non_disruptive_count' = [non_disruptive_count EXCEPT ![p] = @ + 1]
            /\ UNCHANGED disruptive_count
    /\ pc' = [pc EXCEPT ![p] = "loop"]
    /\ UNCHANGED <<tests_to_run, path, walkPos, idx, test_case_path, test_flags,
                   ret, exc, returnedValue, before, scanned, snapVars>>

\* Line 86 (95): _get_test_class raises, and nothing catches it; the record
\* stored so far stays in the class's dict.
SetClassFails(p) ==
    /\ pc[p] = "class"
    /\ ClassRaises(test_case_path[p]) # "no"
    /\ Raise(p, ClassRaises(test_case_path[p]), "_get_test_class")
    /\ UNCHANGED <<tests_to_run, tests_run_dict, path, walkPos, idx,
                   test_case_path, test_flags, disruptive_count,
                   non_disruptive_count, ret, returnedValue, before, scanned, snapVars>>

\* Lines 82 and 87 (91 and 96): the record is no longer in the class's dict.
RecordGone(p) ==
    /\ IF pc[p] = "class" THEN ClassRaises(test_case_path[p]) = "no"
       ELSE pc[p] = "fill"
    /\ ~RecordThere(p)
    /\ Raise(p, "KeyError", "create_test_dict")
    /\ UNCHANGED <<tests_to_run, tests_run_dict, path, walkPos, idx,
                   test_case_path, test_flags, disruptive_count,
                   non_disruptive_count, ret, returnedValue, before, scanned, snapVars>>

Next ==
    \E p \in Invocations :
        \/ \E arg \in PathArgs : Call(p, arg)
        \/ ScanFile(p)
        \/ ScanFails(p)
        \/ ResetDisruptive(p)
        \/ ResetNonDisruptive(p)
        \/ NextTest(p)
        \/ Return(p)
        \/ GetInfo(p)
        \/ GetInfoFails(p)
        \/ NewRecord(p)
        \/ FillRecord(p)
        \/ SetClass(p)
        \/ SetClassFails(p)
        \/ RecordGone(p)

Spec == Init /\ [][Next]_vars

\* The program as it is run: one thread, which calls create_test_dict again
\* only when the call before has stopped.  No other invocation can then reset
\* a partition between lines 81 and 87, so there is no KeyError to model.
SeqCall(p, arg) ==
    /\ \A q \in Invocations : ~Active(q)
    /\ Call(p, arg)

SeqNext ==
    \E p \in Invocations :
        \/ \E arg \in PathArgs : SeqCall(p, arg)
        \/ ScanFile(p)
        \/ ScanFails(p)
        \/ ResetDisruptive(p)
        \/ ResetNonDisruptive(p)
        \/ NextTest(p)
        \/ Return(p)
        \/ GetInfo(p)
        \/ GetInfoFails(p)
        \/ NewRecord(p)
        \/ FillRecord(p)
        \/ SetClass(p)
        \/ SetClassFails(p)

SeqSpec == Init /\ [][SeqNext]_vars

-----------------------------------------------------------------------------
(* SnapshotOps.snap_restore and SnapshotOps.snap_restore_complete *)

\* The parameters of snap_restore after self, lines 232-233.
snap_restore_params == <<"snapname", "node", "excep">>

\* The positional arguments line 280 passes to self.snap_restore.
Line280Arguments(f) == <<f.volname, f.snapname, f.node, f.excep>>

\* Python binds positional arguments to parameters one to one; a call with
\* more of them than the function has parameters raises TypeError.
BindsPositional(params, args) == Len(args) <= Len(params)

Command(cmd, target) == [cmd |-> cmd, target |-> target]

\* snap_restore_complete(volname, snapname, node, excep) is called.
SnapRestoreCompleteCall(v, sn, n, e) ==
    /\ spc = "idle"
    /\ spc' = "stop"
    /\ frame' = [method |-> "snap_restore_complete", volname |-> v,
                 snapname |-> sn, node |-> n, excep |-> e]
    /\ issued' = <<>>
    /\ outcome' = "none"
    /\ UNCHANGED <<volState, builderVars>>

\* Line 278: self.volume_stop(volname, node, force=True).  volume_stop is
\* defined outside this file; with force it leaves the volume stopped.
VolumeStop ==
    /\ spc = "stop"
    /\ volState' = [volState EXCEPT ![frame.volname] = "stopped"]
    /\ issued' = Append(issued, Command("volume stop", frame.volname))
    /\ spc' = "restore"
    /\ UNCHANGED <<frame, outcome, builderVars>>

\* Line 280: self.snap_restore(volname, snapname, node, excep) passes four
\* positional arguments to a method of three parameters: the call raises
\* TypeError before the body of snap_restore runs, nothing in
\* snap_restore_complete catches it, and lines 282-288 are never reached.
RestoreArgumentsRejected ==
    /\ spc = "restore"
    /\ ~BindsPositional(snap_restore_params, Line280Arguments(frame))
    /\ outcome' = "TypeError"
    /\ spc' = "idle"
    /\ UNCHANGED <<volState, frame, issued, builderVars>>

\* Lines 232-256: snap_restore(snapname, node, excep) called by a test with
\* the arguments it declares: the restore command is sent and its result
\* returned, opRet being whatever gluster answers.
SnapRestore(sn, n, e, opRet) ==
    /\ spc = "idle"
    /\ BindsPositional(snap_restore_params, <<sn, n, e>>)
    /\ frame' = [method |-> "snap_restore", volname |-> "none",
                 snapname |-> sn, node |-> n, excep |-> e]
    /\ issued' = <<Command("snapshot restore", sn)>>
    /\ outcome' = IF opRet = 0 THEN "ret with opRet 0" ELSE "ret with opRet non-zero"
    /\ UNCHANGED <<volState, spc, builderVars>>

\* A test starts a volume itself (volume_start, the operation line 286 names).
VolumeStart(v) ==
    /\ spc = "idle"
    /\ volState[v] = "stopped"
    /\ volState' = [volState EXCEPT ![v] = "started"]
    /\ UNCHANGED <<spc, frame, issued, outcome, builderVars>>

SnapNext ==
    \/ \E v \in Volumes, sn \in Snapshots, n \in Nodes, e \in BOOLEAN :
           SnapRestoreCompleteCall(v, sn, n, e)
    \/ VolumeStop
    \/ RestoreArgumentsRejected
    \/ \E sn \in Snapshots, n \in Nodes, e \in BOOLEAN, opRet \in OpRets :
           SnapRestore(sn, n, e, opRet)
    \/ \E v \in Volumes : VolumeStart(v)

SnapSpec == Init /\ [][SnapNext]_vars

-----------------------------------------------------------------------------
(* Vocabulary of the properties *)

Range(xs) == {xs[i] : i \in 1..Len(xs)}

\* The (partition, key) positions of a catalog, and the positions holding a
\* record of a given modulePath.
CatalogKeys(cat) ==
    UNION {{<<part, k>> : k \in DOMAIN cat[part]} : part \in DOMAIN cat}
RecordAt(cat, e) == cat[e[1]][e[2]]
HasField(rec, field) == field \in DOMAIN rec
RecordsFor(cat, tc_path) ==
    {e \in CatalogKeys(cat) :
        IF HasField(RecordAt(cat, e), "modulePath")
        THEN RecordAt(cat, e)["modulePath"] = tc_path ELSE FALSE}
ModulePaths(cat) ==
    {RecordAt(cat, e)["modulePath"] :
        e \in {x \in CatalogKeys(cat) : HasField(RecordAt(cat, x), "modulePath")}}

\* Every file under a root, and the test files among them.
FilesUnder(root) == {PathJoin(f.dir, f.name) : f \in Range(Walk(root))}
TestFilesUnder(root) ==
    {PathJoin(f.dir, f.name) : f \in {g \in Range(Walk(root)) : IsTestFile(g.name)}}

\* The nature tokens the specification recognizes.
RecognizedNonDisruptive == {<<"nonDisruptive">>}
RecognizedNature == {<<"disruptive">>} \cup RecognizedNonDisruptive

\* The three kinds of malformed metadata: no leading comment, fewer than two
\* fields, an unrecognized nature token.
Malformed(tc_path) ==
    IF Len(FileAt(tc_path).comments) = 0 THEN TRUE
    ELSE IF Len(Split(FileAt(tc_path).comments[1], ";")) < 2 THEN TRUE
    ELSE Split(FileAt(tc_path).comments[1], ";")[1] \notin RecognizedNature

\* The classes of a module that are defined in it and expose the entry point.
Qualifying(tc_path) ==
    {c \in FileAt(tc_path).classes : c.module = "own" /\ c.entry}

\* p returned a catalog (the class's dict, or the {} of line 71).
Returned(p) == pc[p] = "returned"
\* p and q ran one after the other, p first.
Sequential(p, q) == p \in before[q]
\* p and q were running at the same time.
Concurrent(p, q) ==
    /\ p # q /\ pc[p] # "idle" /\ pc[q] # "idle"
    /\ p \notin before[q] /\ q \notin before[p]
\* What a caller sees now through the value p returned.
Observed(p) == IF ret[p] = "shared" THEN tests_run_dict ELSE EmptyDict
\* The files p has taken from tests_to_run so far.
Taken(p) == {tests_to_run[i] : i \in 1..(idx[p] - 1)}

-----------------------------------------------------------------------------
(* Properties *)

\* C1 (isolation across builds): when create_test_dict(A) has stopped and
\* create_test_dict(B) is called after it, the catalog returned for B holds
\* no record whose modulePath is a file under A and not under B.
IsolationAcrossBuilds ==
    \A a, b \in Invocations :
        (Sequential(a, b) /\ Returned(b)) =>
            \A m \in ModulePaths(returnedValue[b]) :
                ~(m \in FilesUnder(path[a]) /\ m \notin FilesUnder(path[b]))

\* C2 (determinism of repeated builds): two builds in a row of the same
\* directory return catalogs with the same records under the same keys, the
\* second with no modulePath twice.
RepeatedBuildDeterministic ==
    \A a, b \in Invocations :
        (b = a + 1 /\ Sequential(a, b) /\ path[a] = path[b]
                   /\ Returned(a) /\ Returned(b)) =>
            /\ returnedValue[b] = returnedValue[a]
            /\ \A m \in ModulePaths(returnedValue[b]) :
                   Cardinality(RecordsFor(returnedValue[b], m)) = 1

\* C3 (partition exactness): in a returned catalog every valid test file under
\* the root has exactly one record, no modulePath has two, and the number of
\* records is the number of valid test files under the root.
PartitionExactness ==
    \A p \in Invocations :
        (Returned(p) /\ ret[p] = "shared") =>
            LET cat == returnedValue[p]
                valid == {m \in TestFilesUnder(path[p]) : ~Malformed(m)}
            IN  /\ \A m \in valid : Cardinality(RecordsFor(cat, m)) = 1
                /\ \A m \in ModulePaths(cat) : Cardinality(RecordsFor(cat, m)) = 1
                /\ Cardinality(CatalogKeys(cat)) = Cardinality(valid)

\* C4 (record validity): a record of a returned catalog is in the disruptive
\* partition iff the nature token of its file is 'disruptive', in the
\* nonDisruptive partition only if the token is a recognized non-disruptive
\* marker, and its volType is non-empty and holds no empty identifier.
RecordValidity ==
    \A p \in Invocations :
        (Returned(p) /\ ret[p] = "shared") =>
            \A e \in CatalogKeys(returnedValue[p]) :
                LET rec == RecordAt(returnedValue[p], e)
                    token == Split(extract_comments(rec["modulePath"])[1], ";")[1]
                IN  /\ (e[1] = "disruptive") <=> (token = <<"disruptive">>)
                    /\ (e[1] = "nonDisruptive") => (token \in RecognizedNonDisruptive)
                    /\ rec["volType"] # <<>>
                    /\ \A i \in 1..Len(rec["volType"]) : rec["volType"][i] # <<>>

\* C5 (malformed metadata is an error): a build that took a file with
\* malformed metadata has stopped by raising MalformedTestMetadata and has
\* placed no record for the file.
MalformedIsError ==
    \A p \in Invocations :
        \A m \in Taken(p) :
            (Malformed(m) /\ Stopped(p)) =>
                /\ pc[p] = "raised"
                /\ exc[p].type = "MalformedTestMetadata"
                /\ RecordsFor(tests_run_dict, m) = {}

\* C6 (scan failure is not an empty result): a build of a root that is missing
\* or cannot be traversed fails with DiscoveryFailure and returns nothing, so
\* never the value a build of a readable root without test files returns.
ScanFailureDistinguishable ==
    \A p \in Invocations :
        (Stopped(p) /\ (path[p] \in {Gone, NonePath})) =>
            /\ pc[p] = "raised"
            /\ exc[p].type = "DiscoveryFailure"
            /\ \A q \in Invocations :
                   (Returned(q) /\ path[q] = Empty) =>
                       ~(Returned(p) /\ returnedValue[p] = returnedValue[q])

\* C7 (no silently partial catalog): a returned catalog lacks the record of
\* no file the build took, and a build stopped by the failure of one file has
\* produced the records of the other valid files of its root (create_test_dict
\* has no fail-fast switch to select).
NoSilentlyPartialCatalog ==
    \A p \in Invocations :
        /\ (Returned(p) /\ ret[p] = "shared") =>
               \A m \in Taken(p) : RecordsFor(returnedValue[p], m) # {}
        /\ (pc[p] = "raised" /\ exc[p].raisedIn # "create_test_dict") =>
               \A m \in TestFilesUnder(path[p]) :
                   (m # test_case_path[p] /\ ~Malformed(m)
                        /\ ClassRaises(m) = "no") =>
                       RecordsFor(tests_run_dict, m) # {}

\* C8 (concurrent builds do not share a catalog): a build that ran at the same
\* time as the builds of other roots returns exactly the records of its own
\* root.
ConcurrentBuildsSeparate ==
    \A p \in Invocations :
        (/\ Returned(p) /\ ret[p] = "shared"
         /\ \E q \in Invocations : Concurrent(p, q)
         /\ \A q \in Invocations \ {p} :
                pc[q] # "idle" => (Concurrent(p, q) /\ path[q] # path[p])) =>
            ModulePaths(returnedValue[p]) = TestFilesUnder(path[p])

\* C9 (a returned catalog is never mutated): what is seen through a catalog
\* returned by a build stays what it was when it was returned, whatever calls
\* are made after the build (the builds here run one after the other).
ReturnedCatalogUnchanged ==
    \A p \in Invocations :
        (/\ Returned(p)
         /\ \A q \in Invocations : ~Concurrent(p, q)) =>
            Observed(p) = returnedValue[p]

\* C10 (resolution is structural): a testClass stored in the catalog is the
\* one class defined in its module that exposes the entry point; the resolver
\* fails exactly when there is no or more than one such class, and then with
\* AmbiguousTestImplementation.
ResolutionStructural ==
    /\ \A e \in CatalogKeys(tests_run_dict) :
           LET rec == RecordAt(tests_run_dict, e)
           IN  HasField(rec, "testClass") =>
                   Qualifying(rec["modulePath"]) = {rec["testClass"]}
    /\ \A p \in Invocations :
           (pc[p] = "raised" /\ exc[p].raisedIn = "_get_test_class"
                /\ FileAt(test_case_path[p]).importable) =>
               /\ exc[p].type = "AmbiguousTestImplementation"
               /\ Cardinality(Qualifying(test_case_path[p])) # 1

\* Join(xs, sep): the strings of xs with sep between them.
RECURSIVE Join(_, _)
Join(xs, sep) ==
    IF Len(xs) = 0 THEN <<>>
    ELSE IF Len(xs) = 1 THEN xs[1]
    ELSE xs[1] \o <<sep>> \o Join(Tail(xs), sep)

\* The files on disk whose path, written out, is m.
FilesNamed(m) ==
    {i \in 1..Len(Disk) : Disk[i].dir \o <<"/">> \o Disk[i].name = m}

\* C11 (record field derivation): in every record that has its module level
\* fields, modulePath is a scanned path, moduleName is the name of the file,
\* componentName the name of the directory holding it, and volType the
\* identifiers of field 1 of the first comment in their order: joined with
\* ',' they give field 1 back and none holds a ','.  The record of
\* glusterd/test_snap.py ('disruptive;replicated') is in the disruptive
\* partition with volType ['replicated'], that of dht/test_rebalance.py
\* ('nonDisruptive;distributed,replicated') in the nonDisruptive partition
\* with volType ['distributed', 'replicated'].
RecordFieldDerivation ==
    \A e \in CatalogKeys(tests_run_dict) :
        LET rec == RecordAt(tests_run_dict, e)
        IN  HasField(rec, "modulePath") =>
                /\ rec["modulePath"] \in Range(tests_to_run)
                /\ \E i \in FilesNamed(rec["modulePath"]) :
                       /\ rec["moduleName"] = Disk[i].name
                       /\ rec["componentName"] = <<Disk[i].dir[Len(Disk[i].dir)]>>
                       /\ LET flags == Disk[i].comments[1]
                              semi == CHOOSE k \in 1..Len(flags) :
                                          flags[k] = ";"
                                          /\ \A j \in 1..(k - 1) : flags[j] # ";"
                              rest == SubSeq(flags, semi + 1, Len(flags))
                              field1 == IF \E k \in 1..Len(rest) : rest[k] = ";"
                                        THEN SubSeq(rest, 1,
                                                 (CHOOSE k \in 1..Len(rest) :
                                                      rest[k] = ";"
                                                      /\ \A j \in 1..(k - 1) : rest[j] # ";") - 1)
                                        ELSE rest
                          IN  /\ Join(rec["volType"], ",") = field1
                              /\ \A n \in 1..Len(rec["volType"]) :
                                     "," \notin Range(rec["volType"][n])
                /\ (rec["modulePath"] = <<"tests", "/", "glusterd", "/", "test", "_snap", ".py">>) =>
                       /\ e[1] = "disruptive"
                       /\ rec["componentName"] = <<"glusterd">>
                       /\ rec["moduleName"] = <<"test", "_snap", ".py">>
                       /\ rec["volType"] = << <<"replicated">> >>
                /\ (rec["modulePath"] = <<"tests", "/", "dht", "/", "test", "_rebalance", ".py">>) =>
                       /\ e[1] = "nonDisruptive"
                       /\ rec["volType"] = << <<"distributed">>, <<"replicated">> >>

\* C11's case: a build of tests has returned a catalog holding the records
\* of both files.
RecordFieldDerivationWitness ==
    \E p \in Invocations :
        /\ Returned(p) /\ ret[p] = "shared" /\ path[p] = Tests
        /\ RecordsFor(returnedValue[p],
               <<"tests", "/", "glusterd", "/", "test", "_snap", ".py">>) # {}
        /\ RecordsFor(returnedValue[p],
               <<"tests", "/", "dht", "/", "test", "_rebalance", ".py">>) # {}

\* The paths of tests_to_run that line 80 sends to a partition, in order.
ClassifiedInto(part) ==
    LET hit(m) == IF InfoRaises(m) THEN FALSE
                  ELSE Partition(get_test_module_info(m)) = part
    IN  SelectSeq(tests_to_run, hit)

\* The keys of a partition are first, first + 1, ... and the k-th file sent to
\* the partition has the k-th of them.
IndexedFrom(first, cat) ==
    \A part \in DOMAIN cat :
        LET n == Cardinality(DOMAIN cat[part])
        IN  /\ DOMAIN cat[part] = first..(first + n - 1)
            /\ n = Len(ClassifiedInto(part))
            /\ \A k \in 1..n :
                   cat[part][first + k - 1]["modulePath"] = ClassifiedInto(part)[k]

\* The latest build has returned the class's dict.
LatestReturned(p) ==
    /\ Returned(p) /\ ret[p] = "shared"
    /\ \A q \in Invocations : q > p => pc[q] = "idle"

\* C12 (sequential per-partition indexing): in a returned catalog the keys of
\* each partition are consecutive, given per partition in processing order,
\* and start at 1 as the documented format has them.
SequentialIndexingFromOne ==
    \A p \in Invocations :
        LatestReturned(p) => IndexedFrom(1, returnedValue[p])

\* The files on disk in root or in a directory at any depth below it whose
\* name starts with 'test' and ends with '.py', as paths.
MatchingBelow(root) ==
    {Disk[i].dir \o <<"/">> \o Disk[i].name :
        i \in {j \in 1..Len(Disk) :
                 /\ Len(Disk[j].dir) >= Len(root)
                 /\ SubSeq(Disk[j].dir, 1, Len(root)) = root
                 /\ (Len(Disk[j].dir) > Len(root) => Disk[j].dir[Len(root) + 1] = "/")
                 /\ Disk[j].name[1] = "test"
                 /\ Disk[j].name[Len(Disk[j].name)] = ".py"}}

\* The walk of p is over.
ScanComplete(p) ==
    /\ pc[p] \notin {"idle", "walk"}
    /\ ret[p] # "fresh"

\* C13 (scanner selection): the paths a build's scan has collected once it is
\* over are exactly the files at any depth under the root whose name starts
\* with 'test' and ends with '.py', each once; while it runs it has collected
\* only such files; and no file's metadata is extracted before it is over.
ScannerSelection ==
    \A p \in Invocations :
        /\ Range(scanned[p]) \subseteq MatchingBelow(path[p])
        /\ ScanComplete(p) =>
               /\ Range(scanned[p]) = MatchingBelow(path[p])
               /\ Len(scanned[p]) = Cardinality(MatchingBelow(path[p]))
        /\ (pc[p] \in {"info", "new", "fill", "class"} \/ idx[p] > 1) =>
               /\ ScanComplete(p)
               /\ walkPos[p] > Len(Walk(path[p]))

\* C13's case: the scan of tests, whose test files are two levels down beside
\* files that fail one condition each, is over and extraction has begun.
ScannerSelectionWitness ==
    \E p \in Invocations :
        /\ path[p] = Tests /\ pc[p] = "info"
        /\ Len(scanned[p]) = 2
        /\ <<"tests", "/", "glusterd", "/", "conftest", ".py">> \notin Range(scanned[p])
        /\ <<"tests", "/", "glusterd", "/", "test", "_notes", ".txt">> \notin Range(scanned[p])

\* The positions of a command in what a call has sent.
Sent(cmd, target) ==
    {i \in 1..Len(issued) : issued[i] = Command(cmd, target)}

\* C14 (snap_restore_complete ordering): a call of snap_restore_complete that
\* has ended has sent the restore of its snapshot exactly once and the stop of
\* its volume before it, has returned True or False, and when it returned
\* True the volume is started.
SnapRestoreCompleteOrdering ==
    (spc = "idle" /\ frame.method = "snap_restore_complete") =>
        /\ Cardinality(Sent("snapshot restore", frame.snapname)) = 1
        /\ \A i \in Sent("snapshot restore", frame.snapname) :
               \E j \in Sent("volume stop", frame.volname) : j < i
        /\ outcome \in {"True", "False"}
        /\ (outcome = "True") => (volState[frame.volname] = "started")

RecordFieldNames == {"volType", "modulePath", "moduleName", "componentName", "testClass"}

\* C15 (stored records are complete): when a build has stopped, by returning
\* or by raising, and none is running, every record in either partition of
\* the class's dict has volType, modulePath, moduleName, componentName and
\* testClass.
StoredRecordsComplete ==
    (/\ \E p \in Invocations : Stopped(p)
     /\ \A p \in Invocations : ~Active(p)) =>
        \A e \in CatalogKeys(tests_run_dict) :
            DOMAIN RecordAt(tests_run_dict, e) = RecordFieldNames

====
